---------------------------- MODULE Spec2Model ----------------------------
(***************************************************************************)
(* Model of packages/content-fetch/src/request_handler.ts: the express     *)
(* handler contentFetchRequestHandler, which fetches a page once, uploads  *)
(* its content under its md5 digest and queues one save-page job per user. *)
(*                                                                         *)
(* An optional JavaScript value (x?: T) is modelled as a sequence of       *)
(* length at most one: None is undefined, Some(x) is the value x.          *)
(***************************************************************************)
EXTENDS Integers, Sequences, FiniteSets, TLC

None == <<>>
Some(x) == <<x>>

\* JavaScript truthiness of an optional string: undefined and '' are falsy.
Truthy(o) == o # None /\ o[1] # ""

(***************************************************************************)
(* Bounds and input domains.                                               *)
(***************************************************************************)
\* Longest users array on a request body.
MaxUsers == 2

\* Handler invocations the process can have in flight.
Runs == {"run1", "run2"}

UserIds == {"u1", "u2"}

\* interface User (lines 8-11)
User == [id : UserIds, folder : {None, Some("inbox")}]

UserLists == UNION {[1..n -> User] : n \in 0..MaxUsers}

\* interface RequestBody (lines 13-29); '' is a string a caller can send.
RequestBody ==
    [url : {"https://a.com"},
     userId : {None, Some(""), Some("u3")},
     saveRequestId : {"req-1"},
     state : {None},
     labels : {Some("news")},
     source : {None},
     taskId : {None, Some(""), Some("task-1")},
     locale : {None},
     timezone : {None},
     rssFeedUrl : {None, Some(""), Some("https://a.com/feed")},
     savedAt : {Some("2024-01-01")},
     publishedAt : {None},
     folder : {None, Some("archive")},
     users : {None} \cup {Some(l) : l \in UserLists},
     priority : {"high", "low"}]

\* The body held by an invocation slot no request has reached.
NoBody == CHOOSE b \in RequestBody :
    /\ b.userId = None /\ b.users = None /\ b.taskId = None
    /\ b.rssFeedUrl = None /\ b.folder = None /\ b.priority = "low"

Contents == {"<html>a</html>", "<html>b</html>"}

\* What fetchContent resolves to: content may be missing or empty.
FetchResults ==
    [finalUrl : {"https://a.com/amp"},
     title : {Some("A")},
     content : {None, Some("")} \cup {Some(c) : c \in Contents},
     contentType : {Some("text/html")}]

\* What an awaited call can reject with: an Error (its message may be '')
\* or a value that is no Error.
Thrown ==
    {[isError |-> TRUE, message |-> "timeout"],
     [isError |-> TRUE, message |-> ""],
     [isError |-> FALSE, message |-> "a string"]}

\* How analytics.capture can end: it returns, or it throws synchronously.
CaptureOutcomes == {"returns", "throws"}

(***************************************************************************)
(* Pure code of the handler.                                               *)
(***************************************************************************)
\* hash (lines 63-64): md5 hex digest, tabulated on the modelled contents.
hash(content) ==
    CASE content = "<html>a</html>" -> "md5-a"
      [] content = "<html>b</html>" -> "md5-b"
      [] OTHER -> "md5-empty"

\* A bug: the users array wins over userId.
NormalizeUsersListFirst(b) ==
    IF b.users # None
      THEN b.users[1]
      ELSE IF Truthy(b.userId)
             THEN <<[id |-> b.userId[1], folder |-> b.folder]>>
             ELSE <<>>

\* lines 71-82: users = body.users || []; a truthy userId replaces it.
Normalize(b) ==
    IF Truthy(b.userId)
      THEN <<[id |-> b.userId[1], folder |-> b.folder]>>
      ELSE IF b.users # None THEN b.users[1] ELSE <<>>

\* line 86: body.source || 'puppeteer-parse'
SourceOf(b) == IF Truthy(b.source) THEN b.source[1] ELSE "puppeteer-parse"

\* A bug: the digest is computed outside the `if (content)`.
ContentHashAlways(content) ==
    IF content # None THEN Some(hash(content[1])) ELSE Some(hash(""))

\* lines 118-123: contentHash stays undefined unless content is truthy.
ContentHashOf(content) ==
    IF Truthy(content) THEN Some(hash(content[1])) ELSE None

\* A bug: every job gets the folder of the request body.
JobFolderFromBody(id, user, b, fr, ch) ==
    [userId |-> id,
     data |-> [userId |-> id,
               url |-> b.url,
               finalUrl |-> fr.finalUrl,
               articleSavingRequestId |-> b.saveRequestId,
               state |-> b.state,
               labels |-> b.labels,
               source |-> SourceOf(b),
               folder |-> b.folder,
               rssFeedUrl |-> b.rssFeedUrl,
               savedAt |-> b.savedAt,
               publishedAt |-> b.publishedAt,
               taskId |-> b.taskId,
               title |-> fr.title,
               contentType |-> fr.contentType,
               contentHash |-> ch],
     isRss |-> Truthy(b.rssFeedUrl),
     isImport |-> Truthy(b.taskId),
     priority |-> b.priority]

\* One element of savePageJobs (lines 128-150) with the user shown as `id`.
Job(id, user, b, fr, ch) ==
    [userId |-> id,
     data |-> [userId |-> id,
               url |-> b.url,
               finalUrl |-> fr.finalUrl,
               articleSavingRequestId |-> b.saveRequestId,
               state |-> b.state,
               labels |-> b.labels,
               source |-> SourceOf(b),
               folder |-> user.folder,
               rssFeedUrl |-> b.rssFeedUrl,
               savedAt |-> b.savedAt,
               publishedAt |-> b.publishedAt,
               taskId |-> b.taskId,
               title |-> fr.title,
               contentType |-> fr.contentType,
               contentHash |-> ch],
     isRss |-> Truthy(b.rssFeedUrl),
     isImport |-> Truthy(b.taskId),
     priority |-> b.priority]

\* A bug: the jobs come out in reverse recipient order.
SavePageJobsReversed(us, b, fr, ch) ==
    [i \in 1..Len(us) |->
        Job(us[Len(us) + 1 - i].id, us[Len(us) + 1 - i], b, fr, ch)]

\* A bug: isImport copied from the rss flag.
SavePageJobsImportFromRss(us, b, fr, ch) ==
    [i \in 1..Len(us) |->
        [Job(us[i].id, us[i], b, fr, ch) EXCEPT !.isImport = Truthy(b.rssFeedUrl)]]

\* lines 128-150: users.map((user) => ({...}))
SavePageJobs(us, b, fr, ch) ==
    [i \in 1..Len(us) |-> Job(us[i].id, us[i], b, fr, ch)]

\* lines 155-159: the message of an Error, 'unknown error' otherwise.
ErrorMessage(e) == IF e.isError THEN e.message ELSE "unknown error"

\* line 170: logRecord.error ? 'failure' : 'success'
ResultOf(error) == IF Truthy(error) THEN "failure" ELSE "success"

\* A bug: one capture call per user.
CaptureCallsPerUser(us, error) ==
    [i \in 1..Len(us) |-> [ids |-> <<us[i].id>>, result |-> ResultOf(error)]]

\* lines 167-176: the calls of analytics.capture the finally block makes.
CaptureCalls(us, error) ==
    <<[ids |-> [i \in 1..Len(us) |-> us[i].id], result |-> ResultOf(error)]>>

(***************************************************************************)
(* State.                                                                  *)
(***************************************************************************)
VARIABLES
    pc,            \* where each invocation stands
    body,          \* req.body
    users,         \* the local `users` after lines 72-82
    logError,      \* logRecord.error
    totalTimes,    \* how often logRecord.totalTime was assigned
    fetchResult,   \* what fetchContent resolved to, if it did
    contentHash,   \* the local `contentHash`
    savePageJobs,  \* the local `savePageJobs`, once built
    rejections,    \* the awaited calls that rejected: [call, error]
    caught,        \* the value the catch clause is handling
    completion,    \* how the finally block was entered: "normal" or "return"
    fetchCalls,    \* the calls of fetchContent
    uploadCalls,   \* the calls of uploadToBucket: [filename, data]
    uploaded,      \* the calls of uploadToBucket that resolved
    queueCalls,    \* the batches passed to queueSavePageJob
    accepted,      \* the batches queueSavePageJob resolved for
    captured,      \* the calls of analytics.capture
    sent,          \* the statuses passed to res.sendStatus
    escaped,       \* the handler's promise rejected
    bucket         \* the bucket: the set of [filename, data] objects stored

vars == <<pc, body, users, logError, totalTimes, fetchResult, contentHash,
          savePageJobs, rejections, caught, completion, fetchCalls, uploadCalls, uploaded,
          queueCalls, accepted, captured, sent, escaped, bucket>>

local == <<body, users, fetchResult, contentHash, savePageJobs>>
calls == <<fetchCalls, uploadCalls, uploaded, queueCalls, accepted>>
outcome == <<logError, totalTimes, rejections, caught, completion, captured,
             sent, escaped>>

\* File.save replaces the object of that name.
Save(b, filename, data) ==
    {o \in b : o.filename # filename} \cup {[filename |-> filename, data |-> data]}

\* The state in which the requests of `arrived` have reached the handler.
InitWith(arrived, bodies) ==
    /\ pc = [r \in Runs |-> IF r \in arrived THEN "received" ELSE "idle"]
    /\ \E f \in [arrived -> bodies] :
         body = [r \in Runs |-> IF r \in arrived THEN f[r] ELSE NoBody]
    /\ users = [r \in Runs |-> <<>>]
    /\ logError = [r \in Runs |-> None]
    /\ totalTimes = [r \in Runs |-> 0]
    /\ fetchResult = [r \in Runs |-> None]
    /\ contentHash = [r \in Runs |-> None]
    /\ savePageJobs = [r \in Runs |-> None]
    /\ rejections = [r \in Runs |-> <<>>]
    /\ caught = [r \in Runs |-> None]
    /\ completion = [r \in Runs |-> "normal"]
    /\ fetchCalls = [r \in Runs |-> <<>>]
    /\ uploadCalls = [r \in Runs |-> <<>>]
    /\ uploaded = [r \in Runs |-> <<>>]
    /\ queueCalls = [r \in Runs |-> <<>>]
    /\ accepted = [r \in Runs |-> <<>>]
    /\ captured = [r \in Runs |-> <<>>]
    /\ sent = [r \in Runs |-> <<>>]
    /\ escaped = [r \in Runs |-> FALSE]
    /\ bucket = {}

\* One request, of any shape, has reached the handler.
Init == InitWith({"run1"}, RequestBody)

(***************************************************************************)
(* The handler, one action per stretch of code between two awaits.         *)
(***************************************************************************)
\* lines 66-116: normalise the recipients and call fetchContent.
Receive(r) ==
    /\ pc[r] = "received"
    /\ users' = [users EXCEPT ![r] = Normalize(body[r])]
    /\ fetchCalls' = [fetchCalls EXCEPT ![r] = Append(@,
           [url |-> body[r].url, locale |-> body[r].locale,
            timezone |-> body[r].timezone])]
    /\ pc' = [pc EXCEPT ![r] = "awaitFetch"]
    /\ UNCHANGED <<body, fetchResult, contentHash, savePageJobs, uploadCalls,
                   uploaded, queueCalls, accepted, outcome, bucket>>

\* A bug: queueSavePageJob is called once per recipient.
EnqueuePerRecipient(r, fr, ch) ==
    LET jobs == SavePageJobs(users[r], body[r], fr, ch) IN
    /\ savePageJobs' = [savePageJobs EXCEPT ![r] = Some(jobs)]
    /\ queueCalls' = [queueCalls EXCEPT ![r] =
           @ \o [i \in 1..Len(jobs) |-> <<jobs[i]>>]]
    /\ pc' = [pc EXCEPT ![r] = "awaitQueue"]

\* lines 128-152: build the jobs and call queueSavePageJob.
Enqueue(r, fr, ch) ==
    LET jobs == SavePageJobs(users[r], body[r], fr, ch) IN
    /\ savePageJobs' = [savePageJobs EXCEPT ![r] = Some(jobs)]
    /\ queueCalls' = [queueCalls EXCEPT ![r] = Append(@, jobs)]
    /\ pc' = [pc EXCEPT ![r] = "awaitQueue"]

\* A bug: the upload is started and not awaited.
FetchOkUploadNotAwaited(r, fr) ==
    /\ pc[r] = "awaitFetch"
    /\ fetchResult' = [fetchResult EXCEPT ![r] = Some(fr)]
    /\ contentHash' = [contentHash EXCEPT ![r] = ContentHashOf(fr.content)]
    /\ uploadCalls' = [uploadCalls EXCEPT ![r] =
           IF Truthy(fr.content)
             THEN Append(@, [filename |-> hash(fr.content[1]), data |-> fr.content[1]])
             ELSE @]
    /\ Enqueue(r, fr, ContentHashOf(fr.content))
    /\ UNCHANGED <<body, users, fetchCalls, uploaded, accepted, outcome, bucket>>

\* A bug: the object is named after the request, not after its content.
FetchOkKeyedByRequest(r, fr) ==
    /\ pc[r] = "awaitFetch"
    /\ fetchResult' = [fetchResult EXCEPT ![r] = Some(fr)]
    /\ contentHash' = [contentHash EXCEPT ![r] = ContentHashOf(fr.content)]
    /\ IF Truthy(fr.content)
         THEN /\ uploadCalls' = [uploadCalls EXCEPT ![r] = Append(@,
                     [filename |-> body[r].saveRequestId, data |-> fr.content[1]])]
              /\ pc' = [pc EXCEPT ![r] = "awaitUpload"]
              /\ UNCHANGED <<savePageJobs, queueCalls>>
         ELSE /\ Enqueue(r, fr, ContentHashOf(fr.content))
              /\ UNCHANGED uploadCalls
    /\ UNCHANGED <<body, users, fetchCalls, uploaded, accepted, outcome, bucket>>

\* A bug: the digest is salted with the request's id.
FetchOkSaltedDigest(r, fr) ==
    /\ pc[r] = "awaitFetch"
    /\ fetchResult' = [fetchResult EXCEPT ![r] = Some(fr)]
    /\ IF Truthy(fr.content)
         THEN /\ contentHash' = [contentHash EXCEPT ![r] =
                     Some(hash(fr.content[1]) \o body[r].saveRequestId)]
              /\ uploadCalls' = [uploadCalls EXCEPT ![r] = Append(@,
                     [filename |-> hash(fr.content[1]) \o body[r].saveRequestId,
                      data |-> fr.content[1]])]
              /\ pc' = [pc EXCEPT ![r] = "awaitUpload"]
              /\ UNCHANGED <<savePageJobs, queueCalls>>
         ELSE /\ contentHash' = [contentHash EXCEPT ![r] = None]
              /\ Enqueue(r, fr, None)
              /\ UNCHANGED uploadCalls
    /\ UNCHANGED <<body, users, fetchCalls, uploaded, accepted, outcome, bucket>>

\* lines 116-124 (and 128-152 when there is no content): fetchContent resolved.
FetchOk(r, fr) ==
    /\ pc[r] = "awaitFetch"
    /\ fetchResult' = [fetchResult EXCEPT ![r] = Some(fr)]
    /\ contentHash' = [contentHash EXCEPT ![r] = ContentHashOf(fr.content)]
    /\ IF Truthy(fr.content)
         THEN /\ uploadCalls' = [uploadCalls EXCEPT ![r] = Append(@,
                     [filename |-> hash(fr.content[1]), data |-> fr.content[1]])]
              /\ pc' = [pc EXCEPT ![r] = "awaitUpload"]
              /\ UNCHANGED <<savePageJobs, queueCalls>>
         ELSE /\ Enqueue(r, fr, ContentHashOf(fr.content))
              /\ UNCHANGED uploadCalls
    /\ UNCHANGED <<body, users, fetchCalls, uploaded, accepted, outcome, bucket>>

\* An awaited call of the try block rejected with e: control enters the catch.
Throw(r, call, e) ==
    /\ rejections' = [rejections EXCEPT ![r] = Append(@, [call |-> call, error |-> e])]
    /\ caught' = [caught EXCEPT ![r] = Some(e)]
    /\ pc' = [pc EXCEPT ![r] = "catch"]

\* line 116: fetchContent rejected.
FetchFail(r, e) ==
    /\ pc[r] = "awaitFetch"
    /\ Throw(r, "fetchContent", e)
    /\ UNCHANGED <<local, calls, logError, totalTimes, completion, captured,
                   sent, escaped, bucket>>

\* lines 56-61, 124-152: the upload resolved; build and queue the jobs.
UploadOk(r) ==
    /\ pc[r] = "awaitUpload"
    /\ LET c == uploadCalls[r][Len(uploadCalls[r])] IN
         /\ bucket' = Save(bucket, c.filename, c.data)
         /\ uploaded' = [uploaded EXCEPT ![r] = Append(@, c)]
    /\ Enqueue(r, fetchResult[r][1], contentHash[r])
    /\ UNCHANGED <<body, users, fetchResult, contentHash, fetchCalls,
                   uploadCalls, accepted, outcome>>

\* A bug: a storage error is logged and the run carries on.
UploadFailSwallowed(r, e, wrote) ==
    /\ pc[r] = "awaitUpload"
    /\ LET c == uploadCalls[r][Len(uploadCalls[r])] IN
         bucket' = IF wrote THEN Save(bucket, c.filename, c.data) ELSE bucket
    /\ rejections' = [rejections EXCEPT ![r] =
           Append(@, [call |-> "uploadToBucket", error |-> e])]
    /\ Enqueue(r, fetchResult[r][1], contentHash[r])
    /\ UNCHANGED <<body, users, fetchResult, contentHash, fetchCalls,
                   uploadCalls, uploaded, accepted, logError, totalTimes,
                   caught, completion, captured, sent, escaped>>

\* lines 56-61, 124: the upload rejected; the object may have been written
\* all the same (a timeout after the write).
UploadFail(r, e, wrote) ==
    /\ pc[r] = "awaitUpload"
    /\ LET c == uploadCalls[r][Len(uploadCalls[r])] IN
         bucket' = IF wrote THEN Save(bucket, c.filename, c.data) ELSE bucket
    /\ Throw(r, "uploadToBucket", e)
    /\ UNCHANGED <<local, calls, logError, totalTimes, completion, captured,
                   sent, escaped>>

\* lines 152-153: queueSavePageJob resolved; the try block completes.
QueueOk(r) ==
    /\ pc[r] = "awaitQueue"
    /\ accepted' = [accepted EXCEPT ![r] = Append(@, queueCalls[r][Len(queueCalls[r])])]
    /\ completion' = [completion EXCEPT ![r] = "normal"]
    /\ pc' = [pc EXCEPT ![r] = "finally"]
    /\ UNCHANGED <<local, fetchCalls, uploadCalls, uploaded, queueCalls,
                   logError, totalTimes, rejections, caught, captured, sent, escaped,
                   bucket>>

\* line 152: queueSavePageJob rejected.
QueueFail(r, e) ==
    /\ pc[r] = "awaitQueue"
    /\ Throw(r, "queueSavePageJob", e)
    /\ UNCHANGED <<local, calls, logError, totalTimes, completion, captured,
                   sent, escaped, bucket>>

\* A bug: the catch clause records the error and does not return.
CatchNoReturn(r) ==
    /\ pc[r] = "catch"
    /\ logError' = [logError EXCEPT ![r] = Some(ErrorMessage(caught[r][1]))]
    /\ completion' = [completion EXCEPT ![r] = "normal"]
    /\ pc' = [pc EXCEPT ![r] = "finally"]
    /\ UNCHANGED <<local, calls, totalTimes, rejections, caught, captured, sent,
                   escaped, bucket>>

\* A bug: the catch clause sends 500 and does not return.
CatchSendWithoutReturn(r) ==
    /\ pc[r] = "catch"
    /\ logError' = [logError EXCEPT ![r] = Some(ErrorMessage(caught[r][1]))]
    /\ sent' = [sent EXCEPT ![r] = Append(@, 500)]
    /\ completion' = [completion EXCEPT ![r] = "normal"]
    /\ pc' = [pc EXCEPT ![r] = "finally"]
    /\ UNCHANGED <<local, calls, totalTimes, rejections, caught, captured,
                   escaped, bucket>>

\* lines 154-161: record the error, send 500 and return (through finally).
Catch(r) ==
    /\ pc[r] = "catch"
    /\ logError' = [logError EXCEPT ![r] = Some(ErrorMessage(caught[r][1]))]
    /\ sent' = [sent EXCEPT ![r] = Append(@, 500)]
    /\ completion' = [completion EXCEPT ![r] = "return"]
    /\ pc' = [pc EXCEPT ![r] = "finally"]
    /\ UNCHANGED <<local, calls, totalTimes, rejections, caught, captured,
                   escaped, bucket>>

\* lines 162-177: the finally block.  A throw of analytics.capture replaces
\* the pending completion and leaves the handler.
Finally(r, how) ==
    /\ pc[r] = "finally"
    /\ totalTimes' = [totalTimes EXCEPT ![r] = @ + 1]
    /\ captured' = [captured EXCEPT ![r] = @ \o CaptureCalls(users[r], logError[r])]
    /\ IF how = "throws"
         THEN /\ escaped' = [escaped EXCEPT ![r] = TRUE]
              /\ pc' = [pc EXCEPT ![r] = "done"]
         ELSE /\ UNCHANGED escaped
              /\ pc' = [pc EXCEPT ![r] =
                     IF completion[r] = "return" THEN "done" ELSE "send200"]
    /\ UNCHANGED <<local, calls, logError, rejections, caught, completion, sent,
                   bucket>>

\* line 179: res.sendStatus(200)
Send200(r) ==
    /\ pc[r] = "send200"
    /\ sent' = [sent EXCEPT ![r] = Append(@, 200)]
    /\ pc' = [pc EXCEPT ![r] = "done"]
    /\ UNCHANGED <<local, calls, logError, totalTimes, rejections, caught,
                   completion, captured, escaped, bucket>>

Next ==
    \E r \in Runs :
        \/ Receive(r)
        \/ \E fr \in FetchResults : FetchOk(r, fr)
        \/ \E e \in Thrown : FetchFail(r, e)
        \/ UploadOk(r)
        \/ \E e \in Thrown, wrote \in BOOLEAN : UploadFail(r, e, wrote)
        \/ QueueOk(r)
        \/ \E e \in Thrown : QueueFail(r, e)
        \/ Catch(r)
        \/ \E how \in CaptureOutcomes : Finally(r, how)
        \/ Send200(r)

Spec == Init /\ [][Next]_vars

(***************************************************************************)
(* What a run has seen.                                                    *)
(***************************************************************************)
Rejected(r, call) == \E i \in 1..Len(rejections[r]) : rejections[r][i].call = call

Finished(r) == pc[r] = "done"

\* Every job of every batch the run passed to queueSavePageJob.
SubmittedJobs(r) ==
    UNION {{queueCalls[r][k][i] : i \in 1..Len(queueCalls[r][k])} :
             k \in 1..Len(queueCalls[r])}

(***************************************************************************)
(* C1.  When the recipient list is not empty and fetch, upload (if any)    *)
(* and queue all succeed, the batch passed to queueSavePageJob has one job *)
(* per recipient, and the i-th job's userId and data.userId are the i-th   *)
(* recipient's id.                                                         *)
(***************************************************************************)
C1_OneJobPerRecipientInOrder ==
    \A r \in Runs :
        (accepted[r] # <<>> /\ users[r] # <<>>) =>
            /\ Len(queueCalls[r]) = 1
            /\ Len(queueCalls[r][1]) = Len(users[r])
            /\ \A i \in 1..Len(users[r]) :
                 /\ queueCalls[r][1][i].userId = users[r][i].id
                 /\ queueCalls[r][1][i].data.userId = users[r][i].id

\* Two recipients with different ids, fetched, uploaded, queued, answered 200.
C1_Witness ==
    \E r \in Runs :
        /\ Finished(r) /\ sent[r] = <<200>>
        /\ uploaded[r] # <<>> /\ accepted[r] # <<>>
        /\ Len(users[r]) = 2 /\ users[r][1].id = "u2" /\ users[r][2].id = "u1"

(***************************************************************************)
(* C2.  When fetchContent fails, uploadToBucket is never invoked, no job   *)
(* is built, queueSavePageJob is never invoked and the run ends having     *)
(* sent status 500.                                                        *)
(***************************************************************************)
C2_FetchFailureStopsTheRun ==
    \A r \in Runs :
        Rejected(r, "fetchContent") =>
            /\ uploadCalls[r] = <<>>
            /\ savePageJobs[r] = None
            /\ queueCalls[r] = <<>>
            /\ Finished(r) => sent[r] = <<500>>

\* A run with two recipients whose fetch failed, finished.
C2_Witness ==
    \E r \in Runs :
        /\ Finished(r) /\ Rejected(r, "fetchContent")
        /\ Len(users[r]) = 2

(***************************************************************************)
(* C3.  On every exit path the reporting step runs exactly once: a         *)
(* finished run has assigned totalTime once and called analytics.capture   *)
(* once, and no run ever does either twice.                                *)
(***************************************************************************)
C3_ReportedExactlyOnce ==
    \A r \in Runs :
        /\ totalTimes[r] <= 1
        /\ Len(captured[r]) <= 1
        /\ Finished(r) => (totalTimes[r] = 1 /\ Len(captured[r]) = 1)

\* A finished run with two recipients that failed in the queue step.
C3_Witness ==
    \E r \in Runs :
        /\ Finished(r) /\ Rejected(r, "queueSavePageJob")
        /\ Len(users[r]) = 2 /\ Len(captured[r]) = 1

(***************************************************************************)
(* C4.  When queueSavePageJob fails, the run ends in failure: status 500,  *)
(* a non-empty recorded error message, and exactly one event at the sink,  *)
(* whose result is 'failure'.                                              *)
(***************************************************************************)
C4_QueueFailureIsReportedAsFailure ==
    \A r \in Runs :
        (Finished(r) /\ Rejected(r, "queueSavePageJob")) =>
            /\ sent[r] = <<500>>
            /\ Truthy(logError[r])
            /\ Len(captured[r]) = 1
            /\ captured[r][1].result = "failure"

(***************************************************************************)
(* C5.  A request whose recipient list is empty after normalisation is     *)
(* rejected before any external call: fetchContent, uploadToBucket and     *)
(* queueSavePageJob are never invoked for it, and it is not answered 200.  *)
(***************************************************************************)
C5_EmptyRecipientsRejectedBeforeAnyCall ==
    \A r \in Runs :
        (pc[r] \notin {"idle", "received"} /\ users[r] = <<>>) =>
            /\ fetchCalls[r] = <<>>
            /\ uploadCalls[r] = <<>>
            /\ queueCalls[r] = <<>>
            /\ \A i \in 1..Len(sent[r]) : sent[r][i] # 200

(***************************************************************************)
(* C6.  When uploadToBucket fails, queueSavePageJob is never invoked and   *)
(* the run ends having sent 500; and no job passed to queueSavePageJob     *)
(* carries a contentHash this run did not upload successfully before.      *)
(***************************************************************************)
C6_NoJobWithUnwrittenDigest ==
    \A r \in Runs :
        /\ Rejected(r, "uploadToBucket") =>
              /\ queueCalls[r] = <<>>
              /\ Finished(r) => sent[r] = <<500>>
        /\ \A j \in SubmittedJobs(r) :
              j.data.contentHash # None =>
                  \E k \in 1..Len(uploaded[r]) :
                      uploaded[r][k].filename = j.data.contentHash[1]

\* A finished run with a recipient whose upload failed.
C6_Witness ==
    \E r \in Runs :
        /\ Finished(r) /\ Rejected(r, "uploadToBucket")
        /\ users[r] # <<>> /\ contentHash[r] # None

(***************************************************************************)
(* C7.  When the fetch succeeds without content, uploadToBucket is never   *)
(* invoked, the run still queues one job per recipient, every such job     *)
(* has contentHash unset, and the missing content alone does not make the  *)
(* run fail.                                                               *)
(***************************************************************************)
C7_NoContentNoUploadNoDigest ==
    \A r \in Runs :
        (fetchResult[r] # None /\ fetchResult[r][1].content = None) =>
            /\ uploadCalls[r] = <<>>
            /\ Len(queueCalls[r]) = 1
            /\ Len(queueCalls[r][1]) = Len(users[r])
            /\ \A j \in SubmittedJobs(r) : j.data.contentHash = None
            /\ Rejected(r, "queueSavePageJob") \/ logError[r] = None
            /\ (Finished(r) /\ accepted[r] # <<>> /\ ~escaped[r]) => sent[r] = <<200>>

\* A run with two recipients answered 200 after a fetch without content.
C7_Witness ==
    \E r \in Runs :
        /\ Finished(r) /\ sent[r] = <<200>>
        /\ fetchResult[r] # None /\ fetchResult[r][1].content = None
        /\ Len(users[r]) = 2

(***************************************************************************)
(* C8.  A failure of analytics.capture does not change the outcome: the    *)
(* status sent is 200 for a pipeline that succeeded and 500 for one that   *)
(* failed, and the sink's error does not leave the handler.                *)
(***************************************************************************)
C8_SinkFailureLeavesOutcomeAlone ==
    \A r \in Runs :
        Finished(r) =>
            /\ ~escaped[r]
            /\ sent[r] = <<IF rejections[r] # <<>> THEN 500 ELSE 200>>

(***************************************************************************)
(* C9.  As claimed: in every job of every batch isRss is true exactly when *)
(* rssFeedUrl is present on the request, and isImport exactly when taskId  *)
(* is present.                                                             *)
(***************************************************************************)
C9_FlagsIffPresent ==
    \A r \in Runs : \A j \in SubmittedJobs(r) :
        /\ j.isRss <=> (body[r].rssFeedUrl # None)
        /\ j.isImport <=> (body[r].taskId # None)

(***************************************************************************)
(* C9, amended.  In every job of every batch isRss is true exactly when    *)
(* rssFeedUrl is present and not the empty string, and isImport exactly    *)
(* when taskId is present and not the empty string; each flag depends on   *)
(* its own field only.                                                     *)
(***************************************************************************)
C9_FlagsIffNonEmpty ==
    \A r \in Runs : \A j \in SubmittedJobs(r) :
        /\ j.isRss <=> (body[r].rssFeedUrl # None /\ body[r].rssFeedUrl # Some(""))
        /\ j.isImport <=> (body[r].taskId # None /\ body[r].taskId # Some(""))

\* A queued job that is rss and no import, of a request with no taskId.
C9_Witness ==
    \E r \in Runs : \E j \in SubmittedJobs(r) :
        /\ j.isRss /\ ~j.isImport
        /\ body[r].taskId = None /\ body[r].rssFeedUrl # None

(***************************************************************************)
(* C10.  As claimed: a recipient is synthesised from userId only when the  *)
(* request has no users list, and a users list on the request is the       *)
(* recipient list.                                                         *)
(***************************************************************************)
C10_UsersListWins ==
    \A r \in Runs :
        pc[r] \notin {"idle", "received"} =>
            (body[r].users # None => users[r] = body[r].users[1])

(***************************************************************************)
(* C10, amended.  A single recipient {userId, folder} is synthesised       *)
(* whenever userId is a non-empty string, and it replaces any users list   *)
(* on the request; the users list is the recipient list only when userId   *)
(* is absent or empty, and without either the recipient list is empty.     *)
(***************************************************************************)
C10_UserIdWins ==
    \A r \in Runs :
        pc[r] \notin {"idle", "received"} =>
            /\ (body[r].userId # None /\ body[r].userId # Some("")) =>
                  /\ Len(users[r]) = 1
                  /\ users[r][1].id = body[r].userId[1]
                  /\ users[r][1].folder = body[r].folder
            /\ (body[r].userId \in {None, Some("")} /\ body[r].users # None) =>
                  users[r] = body[r].users[1]
            /\ (body[r].userId \in {None, Some("")} /\ body[r].users = None) =>
                  users[r] = <<>>
            /\ \A k \in 1..Len(queueCalls[r]) :
                  /\ Len(queueCalls[r][k]) = Len(users[r])
                  /\ \A i \in 1..Len(users[r]) :
                        /\ queueCalls[r][k][i].userId = users[r][i].id
                        /\ queueCalls[r][k][i].data.folder = users[r][i].folder

\* A queued run whose request carried both a userId and a two-user list.
C10_Witness ==
    \E r \in Runs :
        /\ queueCalls[r] # <<>>
        /\ body[r].userId = Some("u3") /\ body[r].folder = Some("archive")
        /\ body[r].users # None /\ Len(body[r].users[1]) = 2

(***************************************************************************)
(* C11.  The result given to analytics.capture agrees with the status      *)
(* sent: 'failure' exactly when 500 is sent and 'success' exactly when 200 *)
(* is sent, whatever value was thrown; and 200 is sent only when           *)
(* queueSavePageJob accepted the batch.  Stated for the runs whose call of *)
(* analytics.capture returned.                                             *)
(***************************************************************************)
C11_SinkResultAgreesWithStatus ==
    \A r \in Runs :
        (Finished(r) /\ captured[r] # <<>> /\ ~escaped[r]) =>
            /\ captured[r][1].result = "failure" <=>
                  (\E i \in 1..Len(sent[r]) : sent[r][i] = 500)
            /\ captured[r][1].result = "success" <=>
                  (\E i \in 1..Len(sent[r]) : sent[r][i] = 200)
            /\ (\E i \in 1..Len(sent[r]) : sent[r][i] = 200) => accepted[r] # <<>>

(***************************************************************************)
(* C12.  Whenever a job passed to queueSavePageJob carries contentHash d,  *)
(* the run's fetch result has content, d is hash(content), and the run's   *)
(* call uploadToBucket(d, content) has already resolved.                   *)
(***************************************************************************)
C12_UploadPrecedesEnqueue ==
    \A r \in Runs : \A j \in SubmittedJobs(r) :
        j.data.contentHash # None =>
            /\ fetchResult[r] # None
            /\ Truthy(fetchResult[r][1].content)
            /\ j.data.contentHash[1] = hash(fetchResult[r][1].content[1])
            /\ \E k \in 1..Len(uploaded[r]) :
                  uploaded[r][k] = [filename |-> j.data.contentHash[1],
                                    data |-> fetchResult[r][1].content[1]]

\* Two jobs queued with the digest of the second content.
C12_Witness ==
    \E r \in Runs :
        /\ queueCalls[r] # <<>> /\ Len(queueCalls[r][1]) = 2
        /\ queueCalls[r][1][2].data.contentHash = Some("md5-b")

(***************************************************************************)
(* C13.  There is no retry inside a run: whatever the number of recipients *)
(* and whichever step fails, fetchContent, uploadToBucket and              *)
(* queueSavePageJob are each invoked at most once (the queue gets one      *)
(* batch, not one call per recipient), and at most one call fails.         *)
(***************************************************************************)
C13_EachCallAtMostOnce ==
    \A r \in Runs :
        /\ Len(fetchCalls[r]) <= 1
        /\ Len(uploadCalls[r]) <= 1
        /\ Len(queueCalls[r]) <= 1
        /\ Len(rejections[r]) <= 1

\* A finished run with two recipients that made all three calls, the last
\* of which failed.
C13_Witness ==
    \E r \in Runs :
        /\ Finished(r) /\ Len(users[r]) = 2
        /\ Len(fetchCalls[r]) = 1 /\ Len(uploadCalls[r]) = 1
        /\ Len(queueCalls[r]) = 1 /\ Rejected(r, "queueSavePageJob")

(***************************************************************************)
(* Concurrent runs: the handler is async, so a second request can be       *)
(* served while the first one waits for fetchContent, uploadToBucket or    *)
(* queueSavePageJob.  The runs share nothing but the bucket.               *)
(***************************************************************************)
\* Single-user requests that differ in their saveRequestId.
ConcurrentBodies ==
    {[b EXCEPT !.saveRequestId = id] :
        b \in {x \in RequestBody :
                 /\ x.userId = Some("u3") /\ x.users = None /\ x.folder = None
                 /\ x.taskId = None /\ x.rssFeedUrl = None /\ x.priority = "high"},
        id \in {"req-1", "req-2"}}

\* A request has reached each invocation of the handler.
InitConc == InitWith(Runs, ConcurrentBodies)

SpecConc == InitConc /\ [][Next]_vars

(***************************************************************************)
(* C14.  Under every interleaving of concurrent runs, runs that write the  *)
(* same digest included, every object of the bucket stored under the name  *)
(* d holds a content whose hash is d, and there is one object per name.    *)
(***************************************************************************)
C14_BlobsMatchTheirDigest ==
    /\ \A o \in bucket : o.filename = hash(o.data)
    /\ \A o1, o2 \in bucket : o1.filename = o2.filename => o1 = o2

\* Both runs have written the same content under the same digest, and the
\* bucket holds that object.
C14_Witness ==
    /\ uploaded["run1"] # <<>> /\ uploaded["run2"] = uploaded["run1"]
    /\ body["run1"].saveRequestId # body["run2"].saveRequestId
    /\ bucket = {uploaded["run1"][1]}

(***************************************************************************)
(* Progress: every awaited call eventually resolves or rejects and the     *)
(* event loop then runs the handler's continuation, so a step that can be  *)
(* taken is eventually taken.                                              *)
(***************************************************************************)
FairSpec == Init /\ [][Next]_vars /\ WF_vars(Next)

(***************************************************************************)
(* C15.  Every started run eventually reaches the terminal state with a    *)
(* transport status sent to the caller.                                    *)
(***************************************************************************)
C15_EveryRunEndsWithAStatus ==
    \A r \in Runs : (pc[r] = "received") ~> (Finished(r) /\ sent[r] # <<>>)

(***************************************************************************)
(* C15, first half: every started run eventually reaches the terminal      *)
(* state.                                                                  *)
(***************************************************************************)
C15_EveryRunTerminates ==
    \A r \in Runs : (pc[r] = "received") ~> Finished(r)

(***************************************************************************)
(* C15, second half: a run in the terminal state has sent a transport      *)
(* status to the caller.                                                   *)
(***************************************************************************)
C15_FinishedRunHasSentAStatus ==
    \A r \in Runs : Finished(r) => sent[r] # <<>>

(***************************************************************************)
(* C16.  A run sends at most one transport status, never both 500 and      *)
(* 200: once the catch clause has sent 500 and the finally block has run,  *)
(* the trailing sendStatus(200) is not executed.                           *)
(***************************************************************************)
C16_AtMostOneStatus ==
    \A r \in Runs :
        /\ Len(sent[r]) <= 1
        /\ sent[r] # <<>> => pc[r] # "send200"
        /\ (rejections[r] # <<>> /\ Finished(r)) => sent[r] = <<500>>

\* A run that sent 500 from the catch clause, after its finally block.
C16_Witness ==
    \E r \in Runs :
        /\ Finished(r) /\ sent[r] = <<500>> /\ Len(captured[r]) = 1
        /\ Rejected(r, "uploadToBucket")

(***************************************************************************)
(* C17.  Within one batch every job carries the same shared fields, copied *)
(* from the request (url, saveRequestId, state, labels, rssFeedUrl,        *)
(* savedAt, publishedAt, taskId, priority), from the fetch result          *)
(* (finalUrl, title, contentType) and from the run (contentHash); two jobs *)
(* of a batch differ in userId and folder only, and each job's userId and  *)
(* folder are those of its own recipient.                                  *)
(***************************************************************************)
C17_SharedFieldsCopiedRecipientFieldsInjected ==
    \A r \in Runs : \A k \in 1..Len(queueCalls[r]) :
        LET batch == queueCalls[r][k] IN
        /\ \A i \in 1..Len(batch) :
              /\ i <= Len(users[r])
              /\ batch[i].userId = users[r][i].id
              /\ batch[i].data.userId = users[r][i].id
              /\ batch[i].data.folder = users[r][i].folder
              /\ batch[i].data.url = body[r].url
              /\ batch[i].data.articleSavingRequestId = body[r].saveRequestId
              /\ batch[i].data.state = body[r].state
              /\ batch[i].data.labels = body[r].labels
              /\ batch[i].data.rssFeedUrl = body[r].rssFeedUrl
              /\ batch[i].data.savedAt = body[r].savedAt
              /\ batch[i].data.publishedAt = body[r].publishedAt
              /\ batch[i].data.taskId = body[r].taskId
              /\ batch[i].priority = body[r].priority
              /\ batch[i].data.finalUrl = fetchResult[r][1].finalUrl
              /\ batch[i].data.title = fetchResult[r][1].title
              /\ batch[i].data.contentType = fetchResult[r][1].contentType
              /\ batch[i].data.contentHash = contentHash[r]
        /\ \A i, j \in 1..Len(batch) :
              [batch[i] EXCEPT !.userId = batch[j].userId,
                               !.data.userId = batch[j].data.userId,
                               !.data.folder = batch[j].data.folder] = batch[j]

\* A batch of two jobs for different users with different folders, with a
\* digest, an rss feed and a task.
C17_Witness ==
    \E r \in Runs :
        /\ queueCalls[r] # <<>> /\ Len(queueCalls[r][1]) = 2
        /\ queueCalls[r][1][1].userId # queueCalls[r][1][2].userId
        /\ queueCalls[r][1][1].data.folder = Some("inbox")
        /\ queueCalls[r][1][2].data.folder = None
        /\ body[r].folder = Some("archive")
        /\ queueCalls[r][1][1].data.contentHash # None
        /\ queueCalls[r][1][1].isRss /\ queueCalls[r][1][1].isImport

(***************************************************************************)
(* C18.  Storing is idempotent on equal content: two runs that process the *)
(* same content compute the same digest; a run whose object is already in  *)
(* the bucket can still have its upload resolve; and when it does, the     *)
(* bucket is what it was before that second write.                         *)
(***************************************************************************)
C18_StoringIsIdempotent ==
    [][\A r \in Runs :
          /\ \A q \in Runs :
                (uploadCalls[r] # <<>> /\ uploadCalls[q] # <<>>
                   /\ uploadCalls[r][1].data = uploadCalls[q][1].data) =>
                      /\ uploadCalls[r][1].filename = uploadCalls[q][1].filename
                      /\ contentHash[r] = contentHash[q]
          /\ pc[r] = "awaitUpload" => ENABLED UploadOk(r)
          /\ (pc[r] = "awaitUpload" /\ uploaded'[r] # uploaded[r]
                /\ uploadCalls[r][1] \in bucket) =>
                   /\ bucket' = bucket
                   /\ uploaded'[r] = <<uploadCalls[r][1]>>
                   /\ rejections'[r] = <<>>]_vars

\* The first run is over and answered 200; the second has since written the
\* same content, and the bucket holds the one object.
C18_Witness ==
    /\ Finished("run1") /\ sent["run1"] = <<200>>
    /\ uploaded["run1"] # <<>> /\ uploaded["run2"] = uploaded["run1"]
    /\ pc["run2"] = "awaitQueue"
    /\ bucket = {uploaded["run1"][1]}

=============================================================================
